---- MODULE Spec2Model ----
(***************************************************************************)
(* State-machine model of webapp/python/app.py: the three tables (users,   *)
(* posts, comments), the per-browser sessions, and one action per request  *)
(* handler.  Strings are sequences of one-character strings, so that the   *)
(* regular expressions of validate_user are computed, not assumed.         *)
(***************************************************************************)
EXTENDS Integers, Sequences, FiniteSets, TLC

VARIABLES
    users,          \* table users: set of rows
    posts,          \* table posts: set of rows
    comments,       \* table comments: set of rows
    nextUserId,     \* AUTO_INCREMENT of users
    nextPostId,     \* AUTO_INCREMENT of posts
    nextCommentId,  \* AUTO_INCREMENT of comments
    now,            \* the database clock that stamps created_at
    session,        \* flask.session of each browser: [user, csrf_token]
    regPending,     \* a POST /register between its SELECT and its INSERT
    initPc,         \* number of statements of db_initialize already executed
    resp            \* the response of the request just handled, until it is sent

vars == <<users, posts, comments, nextUserId, nextPostId, nextCommentId, now,
          session, regPending, initPc, resp>>

----------------------------------------------------------------------------
(* Bounds of the model *)

MaxNewRows == 2
NumSeedPosts == 42

(* Program constants *)

POSTS_PER_PAGE == 20
UPLOAD_LIMIT == 10 * 1024 * 1024
KeepUsersUpTo == 1000
KeepPostsUpTo == 10000
KeepCommentsUpTo == 100000
BanEvery == 50
MinAccountNameLen == 3
MinPasswordLen == 6
MaxCommentsShown == 3
CommentRowBudget == 20

----------------------------------------------------------------------------
(* Strings and character classes *)

Digits == {"0", "1"}
Letters == {"a", "b", "c", "d", "e", "m", "n", "o", "p", "q", "v"}
Alnum == Digits \cup Letters          \* [0-9a-zA-Z]
WordChars == Alnum \cup {"_"}         \* [0-9a-zA-Z_]

\* s is made of n or more characters, all of class
ConsistsOfAtLeast(class, n, s) ==
    /\ Len(s) >= n
    /\ \A i \in 1..Len(s) : s[i] \in class

\* re.match(r"[class]{n,}", s): anchored at the start of s only.
ReMatchAtLeast(class, n, s) ==
    /\ Len(s) >= n
    /\ \A i \in 1..n : s[i] \in class

validate_user(account_name, password) ==
    IF ~ReMatchAtLeast(Alnum, MinAccountNameLen, account_name) THEN FALSE
    ELSE IF ~ReMatchAtLeast(WordChars, MinPasswordLen, password) THEN FALSE
    ELSE TRUE

\* openssl dgst -sha512 of src, as a hex string: a one-way function, modelled
\* as a free constructor (deterministic and collision-free).
digest(src) == [sha512 |-> src]

calculate_salt(account_name) == digest(account_name)

\* "%s:%s" % (password, salt)
calculate_passhash(account_name, password) ==
    digest(<<password, ":", calculate_salt(account_name)>>)

----------------------------------------------------------------------------
(* Inputs of the requests *)

Sessions == {"s1", "s2"}
Tokens == {"t1"}                   \* values of os.urandom(8).hex()
ForgedToken == "t0"                \* a value no session was given
NoToken == "none"
FormTokens == Tokens \cup {ForgedToken}

AdminName == <<"a", "d", "m">>
BobName   == <<"b", "o", "b">>
DanName   == <<"d", "a", "n">>
EveName   == <<"e", "v", "e">>
NewName   == <<"a", "b", "c">>
SeedPassword == <<"p", "p", "p", "p", "p", "p">>

UnderscoreName == <<"a", "b", "_">>                          \* no three alphanumerics first
TrailingPassword == <<"p", "p", "p", "p", "p", "p", "!">>    \* six valid, then another character
ShortPassword == <<"p", "p", "p", "p", "_">>

\* <<account_name, password>> submitted to POST /login
LoginForms ==
    { <<AdminName, SeedPassword>>,
      <<NewName, SeedPassword>>,
      <<NewName, TrailingPassword>> }

\* <<account_name, password>> submitted to POST /register
RegisterForms ==
    { <<NewName, SeedPassword>>,
      <<NewName, TrailingPassword>>,
      <<NewName, ShortPassword>>,
      <<UnderscoreName, SeedPassword>>,
      <<AdminName, SeedPassword>> }

\* account names asked of /@<account_name>
ProfileNames == { DanName, EveName, NewName }

\* an uploaded file: declared content type and number of bytes; NoFile: no file part
NoFile == [mimetype |-> "", size |-> 0]
Files ==
    { NoFile,
      [mimetype |-> "image/png",  size |-> UPLOAD_LIMIT],
      [mimetype |-> "image/gif",  size |-> UPLOAD_LIMIT + 1],
      [mimetype |-> "text/plain", size |-> 1] }

----------------------------------------------------------------------------
(* The data the database holds when the application starts: users 1, 2, 3   *)
(* and 50 (users.id % 50 = 0 is banned by db_initialize), NumSeedPosts      *)
(* posts stamped 1..NumSeedPosts, two of them of the banned user, and       *)
(* comments on three posts.                                                 *)

SeedPasshash(name) == calculate_passhash(name, SeedPassword)

UserRow(id, account_name, passhash, authority, del_flg) ==
    [id |-> id, account_name |-> account_name, passhash |-> passhash,
     authority |-> authority, del_flg |-> del_flg]

SeedUsers ==
    { UserRow(1, AdminName, SeedPasshash(AdminName), 1, 0),
      UserRow(2, BobName, SeedPasshash(BobName), 0, 0),
      UserRow(3, DanName, SeedPasshash(DanName), 0, 0),
      UserRow(BanEvery, EveName, SeedPasshash(EveName), 0, 1) }

DanPosts == {5, 6}
EvePosts == {9, NumSeedPosts - 3}

SeedOwner(i) ==
    IF i \in DanPosts THEN 3
    ELSE IF i \in EvePosts THEN BanEvery
    ELSE IF i % 2 = 1 THEN 1 ELSE 2

SeedMime(i) ==
    IF i % 3 = 0 THEN "image/gif" ELSE IF i % 3 = 1 THEN "image/jpeg" ELSE "image/png"

PostRow(id, user_id, mime, imgdata, body, created_at) ==
    [id |-> id, user_id |-> user_id, mime |-> mime, imgdata |-> imgdata,
     body |-> body, created_at |-> created_at]

SeedPosts == { PostRow(i, SeedOwner(i), SeedMime(i), 1, "caption", i) : i \in 1..NumSeedPosts }

CommentRow(id, post_id, user_id, comment, created_at) ==
    [id |-> id, post_id |-> post_id, user_id |-> user_id, comment |-> comment,
     created_at |-> created_at]

\* <<post_id, user_id>> of the seed comments, in the order they were written
SeedCommentList ==
    << <<5, 1>>, <<5, 2>>, <<6, BanEvery>>, <<5, 3>>, <<5, 1>>, <<6, 2>>, <<5, BanEvery>>,
       <<NumSeedPosts - 2, 2>> >>

SeedComments ==
    { CommentRow(i, SeedCommentList[i][1], SeedCommentList[i][2], "nice",
                 NumSeedPosts + i) : i \in 1..Len(SeedCommentList) }

FirstNewUserId == KeepUsersUpTo + 1
FirstNewPostId == KeepPostsUpTo + 1
FirstNewCommentId == KeepCommentsUpTo + 1

----------------------------------------------------------------------------
(* SQL queries *)

Min(a, b) == IF a < b THEN a ELSE b

RECURSIVE NewestFirstFrom(_, _, _)
NewestFirstFrom(rows, t, limit) ==
    IF limit = 0 \/ rows = {} \/ t < 0 THEN <<>>
    ELSE LET at == {r \in rows : r.created_at = t}
         IN IF at = {} THEN NewestFirstFrom(rows, t - 1, limit)
            ELSE LET r == CHOOSE x \in at : TRUE
                 IN <<r>> \o NewestFirstFrom(rows \ {r}, t, limit - 1)

\* ... ORDER BY created_at DESC LIMIT limit
OrderByCreatedAtDesc(rows, limit) == NewestFirstFrom(rows, now, limit)

RECURSIVE CommentsByPostFrom(_, _)
CommentsByPostFrom(ids, limit) ==
    IF limit = 0 \/ ids = {} THEN <<>>
    ELSE LET pid == CHOOSE i \in ids : \A j \in ids : i <= j
             mine == OrderByCreatedAtDesc({c \in comments : c.post_id = pid}, limit)
         IN mine \o CommentsByPostFrom(ids \ {pid}, limit - Len(mine))

\* SELECT * FROM comments WHERE post_id IN (post_ids)
\*   ORDER BY post_id, created_at DESC LIMIT limit
CommentQuery(post_ids, limit) ==
    CommentsByPostFrom({post_ids[i] : i \in 1..Len(post_ids)}, limit)

\* SELECT * FROM users WHERE id = id (fetchone: no row or the row)
UserById(id) == {u \in users : u.id = id}

\* the list left as the query returned it
Unreversed(s) == s

\* list.reverse()
Reverse(s) == [i \in 1..Len(s) |-> s[Len(s) + 1 - i]]

----------------------------------------------------------------------------
(* make_posts *)

\* step 1 of make_posts: the batch comment query
BatchComments(results, all_comments) ==
    LET post_ids == [i \in 1..Len(results) |-> results[i].id]
        limit_count == IF all_comments THEN CommentRowBudget
                       ELSE Min(Len(post_ids) * MaxCommentsShown, CommentRowBudget)
    IN CommentQuery(post_ids, limit_count)

\* step 3 of make_posts: the loop over all_related_comments. acc.comments
\* and acc.counts are comments_by_post_id and comment_counts.
RECURSIVE StitchComments(_, _, _, _, _)
StitchComments(rows, i, acc, users_by_id, all_comments) ==
    IF i > Len(rows) THEN acc
    ELSE LET comment == rows[i]
             post_id == comment.post_id
             kept == acc.comments[post_id]
             withUser == [id |-> comment.id, post_id |-> comment.post_id,
                          user_id |-> comment.user_id, comment |-> comment.comment,
                          created_at |-> comment.created_at,
                          user |-> {u \in users_by_id : u.id = comment.user_id}]
             next == [counts |-> [acc.counts EXCEPT ![post_id] = @ + 1],
                      comments |->
                          IF all_comments \/ Len(kept) < MaxCommentsShown
                          THEN [acc.comments EXCEPT ![post_id] = Append(@, withUser)]
                          ELSE acc.comments]
         IN StitchComments(rows, i + 1, next, users_by_id, all_comments)

\* p["user"] alone
OwnerPresent(p) == p.user # {}

\* p["user"] and not p["user"]["del_flg"]; p.user is {} for None
LiveOwner(p) == p.user # {} /\ \A u \in p.user : u.del_flg = 0

make_posts(results, all_comments) ==
    IF results = <<>> THEN <<>>
    ELSE
    LET post_ids == [i \in 1..Len(results) |-> results[i].id]
        user_ids_from_posts == {results[i].user_id : i \in 1..Len(results)}
        all_related_comments == BatchComments(results, all_comments)
        user_ids_from_comments ==
            {all_related_comments[i].user_id : i \in 1..Len(all_related_comments)}
        all_user_ids == user_ids_from_posts \cup user_ids_from_comments
        users_by_id == {u \in users : u.id \in all_user_ids}
        idset == {post_ids[i] : i \in 1..Len(post_ids)}
        empty == [counts |-> [p \in idset |-> 0], comments |-> [p \in idset |-> <<>>]]
        stitched == StitchComments(all_related_comments, 1, empty, users_by_id, all_comments)
        enriched == [i \in 1..Len(results) |->
            [id |-> results[i].id, user_id |-> results[i].user_id,
             mime |-> results[i].mime, body |-> results[i].body,
             created_at |-> results[i].created_at,
             user |-> {u \in users_by_id : u.id = results[i].user_id},
             comments |-> Reverse(stitched.comments[results[i].id]),
             comment_count |-> stitched.counts[results[i].id]]]
    IN SelectSeq(enriched, LiveOwner)

----------------------------------------------------------------------------
(* Sessions and responses *)

NoSession == [user |-> 0, csrf_token |-> NoToken]
NoPending == [active |-> FALSE, account_name |-> <<>>, password |-> <<>>]

\* flask.session.get("user"), then SELECT * FROM users WHERE id = user["id"]
get_session_user(s) ==
    IF session[s].user # 0 THEN UserById(session[s].user) ELSE {}

\* What a handler returns. arg: what the request asked for; csrf_token: the
\* token the form carried; posts, data: what the page shows.
Response(route, s, status) ==
    [route |-> route, s |-> s, status |-> status, location |-> "", flash |-> "",
     csrf_token |-> NoToken, arg |-> <<>>, posts |-> <<>>, data |-> <<>>]

Redirect(route, s, location) ==
    [Response(route, s, 302) EXCEPT !.location = location]

FlashRedirect(route, s, location, flash) ==
    [Response(route, s, 302) EXCEPT !.location = location, !.flash = flash]

\* no response is waiting to be sent
NoResp == Response("", "", 0)

\* the worker takes the next request once the last response has gone out
Ready == resp = NoResp

\* a session whose POST /register is between its two statements waits for it
Idle(s) == ~regPending[s].active

\* rows inserted so far, in the three tables together
NewRows ==
    (nextUserId - FirstNewUserId) + (nextPostId - FirstNewPostId)
        + (nextCommentId - FirstNewCommentId)

\* the requests of a run insert at most MaxNewRows rows; a registration that
\* has passed its SELECT counts for the row it is about to insert
RoomForRow ==
    NewRows + Cardinality({t \in Sessions : regPending[t].active}) < MaxNewRows

tables == <<users, posts, comments, nextUserId, nextPostId, nextCommentId, now>>

\* the WSGI layer sends what the view returned
send_response ==
    /\ resp # NoResp
    /\ resp' = NoResp
    /\ UNCHANGED <<tables, session, regPending, initPc>>

----------------------------------------------------------------------------
(* GET /initialize: db_initialize runs five autocommitted statements; other *)
(* requests are served between them.                                        *)

db_initialize_1 ==
    /\ Ready /\ initPc = 0
    /\ users' = {u \in users : ~(u.id > KeepUsersUpTo)}
    /\ initPc' = 1
    /\ UNCHANGED <<posts, comments, nextUserId, nextPostId, nextCommentId, now,
                   session, regPending, resp>>

db_initialize_2 ==
    /\ Ready /\ initPc = 1
    /\ posts' = {p \in posts : ~(p.id > KeepPostsUpTo)}
    /\ initPc' = 2
    /\ UNCHANGED <<users, comments, nextUserId, nextPostId, nextCommentId, now,
                   session, regPending, resp>>

db_initialize_3 ==
    /\ Ready /\ initPc = 2
    /\ comments' = {c \in comments : ~(c.id > KeepCommentsUpTo)}
    /\ initPc' = 3
    /\ UNCHANGED <<users, posts, nextUserId, nextPostId, nextCommentId, now,
                   session, regPending, resp>>

db_initialize_4 ==
    /\ Ready /\ initPc = 3
    /\ users' = {[u EXCEPT !.del_flg = 0] : u \in users}
    /\ initPc' = 4
    /\ UNCHANGED <<posts, comments, nextUserId, nextPostId, nextCommentId, now,
                   session, regPending, resp>>

\* the last statement, and get_initialize's empty 200 answer
db_initialize_5 ==
    /\ Ready /\ initPc = 4
    /\ users' = {IF u.id % BanEvery = 0 THEN [u EXCEPT !.del_flg = 1] ELSE u : u \in users}
    /\ initPc' = 0
    /\ resp' = Response("GET /initialize", "", 200)
    /\ UNCHANGED <<posts, comments, nextUserId, nextPostId, nextCommentId, now,
                   session, regPending>>

----------------------------------------------------------------------------
(* Login, registration, logout *)

\* The values try_login can return: {} for None, {u} for a row. fetchone
\* takes whichever matching row the database yields first.
try_login(account_name, password) ==
    LET rows == {u \in users : u.account_name = account_name /\ u.del_flg = 0}
    IN IF rows = {} THEN { {} }
       ELSE { IF calculate_passhash(u.account_name, password) = u.passhash
              THEN {u} ELSE {} : u \in rows }

get_login(s) ==
    /\ Ready /\ Idle(s)
    /\ resp' = IF get_session_user(s) # {} THEN Redirect("GET /login", s, "/")
               ELSE Response("GET /login", s, 200)
    /\ UNCHANGED <<tables, session, regPending, initPc>>

post_login(s, account_name, password) ==
    /\ Ready /\ Idle(s)
    /\ LET route == "POST /login"
           form == <<account_name, password>>
       IN IF get_session_user(s) # {}
          THEN /\ resp' = [Redirect(route, s, "/") EXCEPT !.arg = form]
               /\ UNCHANGED session
          ELSE \E got \in try_login(account_name, password) :
                 IF got # {}
                 THEN \E user \in got, token \in Tokens :
                        /\ session' = [session EXCEPT ![s] =
                                         [user |-> user.id, csrf_token |-> token]]
                        /\ resp' = [Redirect(route, s, "/") EXCEPT
                                      !.arg = form, !.data = <<"logged in", user.id>>]
                 ELSE /\ resp' = [FlashRedirect(route, s, "/login", "wrong")
                                    EXCEPT !.arg = form]
                      /\ UNCHANGED session
    /\ UNCHANGED <<tables, regPending, initPc>>

get_register(s) ==
    /\ Ready /\ Idle(s)
    /\ resp' = IF get_session_user(s) # {} THEN Redirect("GET /register", s, "/")
               ELSE Response("GET /register", s, 200)
    /\ UNCHANGED <<tables, session, regPending, initPc>>

\* post_register up to and including the uniqueness SELECT
post_register_select(s, account_name, password) ==
    /\ Ready /\ Idle(s)
    /\ LET route == "POST /register"
           form == <<account_name, password>>
       IN IF get_session_user(s) # {}
          THEN /\ resp' = [Redirect(route, s, "/") EXCEPT !.arg = form]
               /\ UNCHANGED regPending
          ELSE IF ~validate_user(account_name, password)
          THEN /\ resp' = [FlashRedirect(route, s, "/register", "invalid")
                             EXCEPT !.arg = form]
               /\ UNCHANGED regPending
          ELSE IF {u \in users : u.account_name = account_name} # {}
          THEN /\ resp' = [FlashRedirect(route, s, "/register", "in use")
                             EXCEPT !.arg = form]
               /\ UNCHANGED regPending
          ELSE /\ RoomForRow
               /\ regPending' = [regPending EXCEPT ![s] =
                   [active |-> TRUE, account_name |-> account_name, password |-> password]]
               /\ UNCHANGED resp
    /\ UNCHANGED <<tables, session, initPc>>

\* post_register from the INSERT on
post_register_insert(s) ==
    /\ Ready /\ regPending[s].active
    /\ LET account_name == regPending[s].account_name
           password == regPending[s].password
           lastrowid == nextUserId
       IN /\ users' = users \cup
                { UserRow(lastrowid, account_name,
                          calculate_passhash(account_name, password), 0, 0) }
          /\ nextUserId' = nextUserId + 1
          /\ \E token \in Tokens :
               session' = [session EXCEPT ![s] = [user |-> lastrowid, csrf_token |-> token]]
          /\ resp' = [Redirect("POST /register", s, "/") EXCEPT
                        !.arg = <<account_name, password>>,
                        !.data = <<"registered", lastrowid>>]
    /\ regPending' = [regPending EXCEPT ![s] = NoPending]
    /\ UNCHANGED <<posts, comments, nextPostId, nextCommentId, now, initPc>>

get_logout(s) ==
    /\ Ready /\ Idle(s)
    /\ session' = [session EXCEPT ![s] = NoSession]
    /\ resp' = Redirect("GET /logout", s, "/")
    /\ UNCHANGED <<tables, regPending, initPc>>

----------------------------------------------------------------------------
(* The listings *)

\* get_index's query: posts JOIN users WHERE u.del_flg = 0
\*   ORDER BY p.created_at DESC LIMIT POSTS_PER_PAGE
IndexQuery ==
    OrderByCreatedAtDesc(
        {p \in posts : \E u \in users : u.id = p.user_id /\ u.del_flg = 0},
        POSTS_PER_PAGE)

get_index ==
    /\ Ready
    /\ resp' = [Response("GET /", "", 200) EXCEPT !.posts = make_posts(IndexQuery, FALSE)]
    /\ UNCHANGED <<tables, session, regPending, initPc>>

\* get_user_list's query for the posts of the user found
UserListQuery(user_id) ==
    OrderByCreatedAtDesc({p \in posts : p.user_id = user_id}, POSTS_PER_PAGE)

UserListCounts(user_id) ==
    LET comment_count == Cardinality({c \in comments : c.user_id = user_id})
        post_ids == {p.id : p \in {q \in posts : q.user_id = user_id}}
        post_count == Cardinality(post_ids)
        commented_count ==
            IF post_count > 0 THEN Cardinality({c \in comments : c.post_id \in post_ids})
            ELSE 0
    IN <<post_count, comment_count, commented_count>>

get_user_list(account_name) ==
    /\ Ready
    /\ LET rows == {u \in users : u.account_name = account_name /\ u.del_flg = 0}
       IN IF rows = {}
          THEN resp' = [Response("GET /@", "", 404) EXCEPT !.arg = <<0>>]
          ELSE \E user \in rows :
                 resp' = [Response("GET /@", "", 200) EXCEPT
                            !.arg = <<user.id>>,
                            !.posts = make_posts(UserListQuery(user.id), FALSE),
                            !.data = UserListCounts(user.id)]
    /\ UNCHANGED <<tables, session, regPending, initPc>>

\* The max_created_at query argument: absent (or empty), a text that is no
\* timestamp, or a timestamp of secs seconds followed by zone.
AbsentTime == [kind |-> "absent", secs |-> 0, zone |-> ""]
MalformedTime == [kind |-> "malformed", secs |-> 0, zone |-> ""]
TimeText(secs, zone) == [kind |-> "time", secs |-> secs, zone |-> zone]

\* _parse_iso8601: the six numeric fields; whatever follows them is ignored
\* (the set is empty when the text does not match, where the code raises).
_parse_iso8601(text) ==
    IF text.kind = "time" THEN {text.secs} ELSE {}

\* get_posts' query
PostsQuery(max_created_at) ==
    IF max_created_at.kind # "absent"
    THEN LET t == CHOOSE x \in _parse_iso8601(max_created_at) : TRUE
         IN OrderByCreatedAtDesc({p \in posts : p.created_at <= t}, POSTS_PER_PAGE)
    ELSE OrderByCreatedAtDesc(posts, POSTS_PER_PAGE)

\* created_at of the (POSTS_PER_PAGE + 1)-th newest post, 0 when there is none
NextPageTime ==
    LET top == OrderByCreatedAtDesc(posts, POSTS_PER_PAGE + 1)
    IN IF Len(top) = POSTS_PER_PAGE + 1 THEN top[POSTS_PER_PAGE + 1].created_at ELSE 0

TimeInputs ==
    { AbsentTime, MalformedTime, TimeText(NextPageTime, "+09:00") }

get_posts(max_created_at) ==
    /\ Ready
    /\ resp' = IF max_created_at.kind # "absent" /\ _parse_iso8601(max_created_at) = {}
               THEN [Response("GET /posts", "", 500) EXCEPT !.arg = <<max_created_at>>]
               ELSE [Response("GET /posts", "", 200) EXCEPT
                        !.arg = <<max_created_at>>,
                        !.posts = make_posts(PostsQuery(max_created_at), FALSE)]
    /\ UNCHANGED <<tables, session, regPending, initPc>>

\* get_posts_id's query
PostsIdQuery(id) ==
    OrderByCreatedAtDesc(
        {p \in posts : p.id = id /\ \E u \in users : u.id = p.user_id /\ u.del_flg = 0}, 1)

get_posts_id(id) ==
    /\ Ready
    /\ LET found == make_posts(PostsIdQuery(id), TRUE)
       IN resp' = IF found = <<>>
                  THEN [Response("GET /posts/id", "", 404) EXCEPT !.arg = <<id>>]
                  ELSE [Response("GET /posts/id", "", 200) EXCEPT
                           !.arg = <<id>>, !.posts = <<found[1]>>]
    /\ UNCHANGED <<tables, session, regPending, initPc>>

----------------------------------------------------------------------------
(* Uploads, images, comments *)

\* the comparison left out
CsrfUnchecked(s, csrf_token) == FALSE

\* flask.request.form["csrf_token"] != flask.session["csrf_token"]
CsrfMismatch(s, csrf_token) == csrf_token # session[s].csrf_token

post_index(s, csrf_token, file) ==
    /\ Ready /\ Idle(s)
    /\ LET me == get_session_user(s)
           route == "POST /"
           answered(r) == /\ resp' = [r EXCEPT !.csrf_token = csrf_token]
                          /\ UNCHANGED <<posts, nextPostId, now>>
       IN IF me = {} THEN answered(Redirect(route, s, "/login"))
          ELSE IF CsrfMismatch(s, csrf_token) THEN answered(Response(route, s, 422))
          ELSE IF file = NoFile THEN answered(FlashRedirect(route, s, "/", "no image"))
          ELSE IF file.mimetype \notin {"image/jpeg", "image/png", "image/gif"}
               THEN answered(FlashRedirect(route, s, "/", "bad type"))
          ELSE IF file.size > UPLOAD_LIMIT
               THEN answered(FlashRedirect(route, s, "/", "too large"))
          ELSE \E user \in me :
                 /\ RoomForRow
                 /\ posts' = posts \cup
                      { PostRow(nextPostId, user.id, file.mimetype, file.size, "caption", now) }
                 /\ nextPostId' = nextPostId + 1
                 /\ now' = now + 1
                 /\ resp' = [Redirect(route, s, "/posts/id") EXCEPT
                               !.arg = <<nextPostId>>, !.csrf_token = csrf_token]
    /\ UNCHANGED <<users, comments, nextUserId, nextCommentId, session, regPending,
                   initPc>>

\* The id of /image/<id>.<ext>: digits (n) or another text
IdText(n) == [kind |-> "int", n |-> n]
JunkId == [kind |-> "junk", n |-> 0]

ExtMatches(ext, mime) ==
    \/ ext = "jpg" /\ mime = "image/jpeg"
    \/ ext = "png" /\ mime = "image/png"
    \/ ext = "gif" /\ mime = "image/gif"

get_image(id, ext) ==
    /\ Ready
    /\ resp' =
         LET r(status) == [Response("GET /image", "", status) EXCEPT !.arg = <<id, ext>>]
             found == {p \in posts : p.id = id.n}
         IN IF id.kind # "int" THEN r(500)              \* int(id) raises
            ELSE IF id.n = 0 THEN r(200)                \* return ""
            ELSE IF found = {} THEN r(500)              \* post is None: post["mime"] raises
            ELSE LET post == CHOOSE p \in found : TRUE
                     mime == post.mime
                 IN IF ExtMatches(ext, mime)
                    THEN [r(200) EXCEPT !.data = <<mime, post.imgdata>>]
                    ELSE r(404)
    /\ UNCHANGED <<tables, session, regPending, initPc>>

\* The post_id field of the comment form: digits only (n), digits followed
\* by something else, or no leading digit
DigitsThenJunk(n) == [kind |-> "digits+junk", n |-> n]

post_comment(s, csrf_token, post_id) ==
    /\ Ready /\ Idle(s)
    /\ LET me == get_session_user(s)
           route == "POST /comment"
           answered(r) == /\ resp' = [r EXCEPT !.csrf_token = csrf_token]
                          /\ UNCHANGED <<comments, nextCommentId, now>>
       IN IF me = {} THEN answered(Redirect(route, s, "/login"))
          ELSE IF CsrfMismatch(s, csrf_token) THEN answered(Response(route, s, 422))
          ELSE IF post_id.kind = "junk" THEN answered(Response(route, s, 200))
          ELSE IF post_id.kind # "int" THEN answered(Response(route, s, 500))
          ELSE \E user \in me :
                 /\ RoomForRow
                 /\ comments' = comments \cup
                      { CommentRow(nextCommentId, post_id.n, user.id, "nice", now) }
                 /\ nextCommentId' = nextCommentId + 1
                 /\ now' = now + 1
                 /\ resp' = [Redirect(route, s, "/posts/id") EXCEPT
                               !.arg = <<post_id.n>>, !.csrf_token = csrf_token]
    /\ UNCHANGED <<users, posts, nextUserId, nextPostId, session, regPending,
                   initPc>>

----------------------------------------------------------------------------
(* /admin/banned *)

\* me["authority"] == 0 with me the value of get_session_user(): "error"
\* when me is None (the subscript raises)
AuthorityCheck(me) ==
    IF me = {} THEN "error"
    ELSE IF \A u \in me : u.authority = 0 THEN "forbidden" ELSE "ok"

\* get_banned calls flask.redirect and flask.render_template without
\* returning what they build.
get_banned(s) ==
    /\ Ready /\ Idle(s)
    /\ LET me == get_session_user(s)
           route == "GET /admin/banned"
       IN resp' = IF AuthorityCheck(me) = "error" THEN Response(route, s, 500)
                  ELSE IF AuthorityCheck(me) = "forbidden" THEN Response(route, s, 403)
                  ELSE Response(route, s, 500)      \* the view returns None
    /\ UNCHANGED <<tables, session, regPending, initPc>>

\* UPDATE users SET del_flg = 1 WHERE id = id, for every id of uids
BanAll(uids) ==
    {IF u.id \in uids THEN [u EXCEPT !.del_flg = 1] ELSE u : u \in users}

post_banned(s, csrf_token, uids) ==
    /\ Ready /\ Idle(s)
    /\ LET me == get_session_user(s)
           route == "POST /admin/banned"
           answered(r) == /\ resp' = [r EXCEPT !.csrf_token = csrf_token]
                          /\ UNCHANGED users
       IN IF AuthorityCheck(me) = "error" THEN answered(Response(route, s, 500))
          ELSE IF AuthorityCheck(me) = "forbidden" THEN answered(Response(route, s, 403))
          ELSE IF CsrfMismatch(s, csrf_token) THEN answered(Response(route, s, 422))
          ELSE /\ users' = BanAll(uids)
               /\ resp' = [Redirect(route, s, "/admin/banned") EXCEPT
                             !.arg = <<uids>>, !.csrf_token = csrf_token]
    /\ UNCHANGED <<posts, comments, nextUserId, nextPostId, nextCommentId, now,
                   session, regPending, initPc>>

----------------------------------------------------------------------------
(* Inputs drawn by the requests, and the specification *)

PostIdInputs == {5, 9, FirstNewPostId}
\* <<id, ext>> of /image/<id>.<ext>; the seed post 2 is a PNG
ImageInputs ==
    { <<IdText(0), "jpg">>, <<IdText(2), "png">>, <<IdText(2), "jpg">>,
      <<IdText(FirstNewPostId), "png">>, <<JunkId, "png">> }
CommentPostIdInputs == {IdText(6), DigitsThenJunk(6), JunkId}
UidInputs == {{FirstNewUserId, FirstNewUserId + 1}}

Init ==
    /\ users = SeedUsers
    /\ posts = SeedPosts
    /\ comments = SeedComments
    /\ nextUserId = FirstNewUserId
    /\ nextPostId = FirstNewPostId
    /\ nextCommentId = FirstNewCommentId
    /\ now = NumSeedPosts + Len(SeedCommentList) + 1
    /\ session = [s \in Sessions |-> NoSession]
    /\ regPending = [s \in Sessions |-> NoPending]
    /\ initPc = 0
    /\ resp = NoResp

Next ==
    \/ send_response
    \/ db_initialize_1
    \/ db_initialize_2
    \/ db_initialize_3
    \/ db_initialize_4
    \/ db_initialize_5
    \/ \E s \in Sessions : get_login(s)
    \/ \E s \in Sessions, f \in LoginForms : post_login(s, f[1], f[2])
    \/ \E s \in Sessions : get_register(s)
    \/ \E s \in Sessions, f \in RegisterForms : post_register_select(s, f[1], f[2])
    \/ \E s \in Sessions : post_register_insert(s)
    \/ \E s \in Sessions : get_logout(s)
    \/ get_index
    \/ \E a \in ProfileNames : get_user_list(a)
    \/ \E t \in TimeInputs : get_posts(t)
    \/ \E id \in PostIdInputs : get_posts_id(id)
    \/ \E s \in Sessions, t \in FormTokens, f \in Files : post_index(s, t, f)
    \/ \E f \in ImageInputs : get_image(f[1], f[2])
    \/ \E s \in Sessions, t \in FormTokens, id \in CommentPostIdInputs : post_comment(s, t, id)
    \/ \E s \in Sessions : get_banned(s)
    \/ \E s \in Sessions, t \in FormTokens, uids \in UidInputs : post_banned(s, t, uids)

Spec == Init /\ [][Next]_vars

----------------------------------------------------------------------------
(* Properties *)

Ids(rows) == [i \in 1..Len(rows) |-> rows[i].id]

\* the owner of post p exists and is not banned
OwnerLive(p) == \E u \in users : u.id = p.user_id /\ u.del_flg = 0

\* C1: when a session with no logged-in user posts to /login the credentials
\* a registration stored in a row that is still there and not banned, the
\* login is answered with the redirect to / and the session then holds the id
\* of that row.
C1_RegisterThenLogin ==
    [][\A s \in Sessions, f \in LoginForms, u \in users :
          ( /\ resp = NoResp
            /\ resp'.route = "POST /login" /\ resp'.s = s /\ resp'.arg = f
            /\ get_session_user(s) = {}
            /\ u.id >= FirstNewUserId /\ u.del_flg = 0
            /\ u.account_name = f[1]
            /\ u.passhash = calculate_passhash(f[1], f[2]) )
          => /\ resp'.status = 302 /\ resp'.location = "/"
             /\ session'[s].user = u.id]_vars

ListingRoutes == {"GET /", "GET /@", "GET /posts", "GET /posts/id"}

\* C2: a listing (GET /, GET /@<account_name>, GET /posts, GET /posts/<id>)
\* shows no post whose owner is missing or banned, and GET /posts/<id> answers
\* 404 for the id of such a post.
C2_NoPostOfMissingOrBannedOwner ==
    resp.route \in ListingRoutes =>
        /\ \A i \in 1..Len(resp.posts) : OwnerLive(resp.posts[i])
        /\ resp.route = "GET /posts/id" =>
             \A p \in posts : (p.id = resp.arg[1] /\ ~OwnerLive(p)) => resp.status = 404

\* GET /posts has answered from rows among which one post has a banned owner
\* and another an owner whose row is gone
C2_Witness ==
    /\ resp.route = "GET /posts" /\ resp.status = 200
    /\ LET results == PostsQuery(resp.arg[1])
       IN /\ \E i \in 1..Len(results) :
               \E u \in UserById(results[i].user_id) : u.del_flg # 0
          /\ \E i \in 1..Len(results) : UserById(results[i].user_id) = {}
    /\ resp.posts # <<>>

\* C3: no two rows of users have the same account_name.
C3_AccountNameUnique ==
    \A u, v \in users : u.account_name = v.account_name => u.id = v.id

\* C4: get_session_user returns no banned user, and a post or a comment is
\* inserted only for a session whose user is not banned.
C4_SessionUserIsLive ==
    /\ \A s \in Sessions : \A u \in get_session_user(s) : u.del_flg = 0
    /\ (resp.route \in {"POST /", "POST /comment"} /\ resp.location = "/posts/id") =>
         \E u \in users : u.id = session[resp.s].user /\ u.del_flg = 0

CsrfRoutes == {"POST /", "POST /comment", "POST /admin/banned"}

\* a request of a logged-in session to one of the three routes, carrying a
\* token that differs from the session's, is being answered
MismatchStep ==
    /\ resp = NoResp
    /\ resp'.route \in CsrfRoutes
    /\ get_session_user(resp'.s) # {}
    /\ resp'.csrf_token # session[resp'.s].csrf_token

\* C5 as claimed: every such request is answered 422 and changes no row.
C5_MismatchIs422 ==
    [][MismatchStep =>
          /\ resp'.status = 422
          /\ UNCHANGED <<users, posts, comments>>]_vars

\* C5 amended: such a request changes no row and is answered 422, except
\* that POST /admin/banned from a user of authority 0 is answered 403.
C5_MismatchIsRejected ==
    [][MismatchStep =>
          /\ UNCHANGED <<users, posts, comments>>
          /\ resp'.status =
               IF /\ resp'.route = "POST /admin/banned"
                  /\ \A u \in get_session_user(resp'.s) : u.authority = 0
               THEN 403 ELSE 422]_vars

\* an administrator's POST /admin/banned with a token that is not the
\* session's has been answered 422
C5_Witness ==
    /\ resp.route = "POST /admin/banned" /\ resp.status = 422
    /\ \E u \in get_session_user(resp.s) : u.authority # 0
    /\ resp.csrf_token # session[resp.s].csrf_token

\* C6: GET and POST /admin/banned answer a session with no logged-in user
\* with the redirect to /login, and a user of authority 0 with 403.
C6_AdminOnly ==
    resp.route \in {"GET /admin/banned", "POST /admin/banned"} =>
        LET me == get_session_user(resp.s)
        IN /\ me = {} => (resp.status = 302 /\ resp.location = "/login")
           /\ (\E u \in me : u.authority = 0) => resp.status = 403

\* C7: a registration is accepted only when account_name is made of 3 or more
\* alphanumeric characters and password of 6 or more characters of [0-9a-zA-Z_].
C7_OnlyValidAccepted ==
    (resp.route = "POST /register" /\ resp.data # <<>>) =>
        /\ ConsistsOfAtLeast(Alnum, MinAccountNameLen, resp.arg[1])
        /\ ConsistsOfAtLeast(WordChars, MinPasswordLen, resp.arg[2])

\* C8: GET /image/<id>.<ext> for a positive id answers 200 with the stored
\* type and bytes when a post with that id exists and ext matches its mime,
\* and 404 in every other case.
C8_ImageOrNotFound ==
    (resp.route = "GET /image" /\ resp.arg[1].kind = "int" /\ resp.arg[1].n > 0) =>
        LET found == {p \in posts : p.id = resp.arg[1].n /\ ExtMatches(resp.arg[2], p.mime)}
        IN IF found # {}
           THEN resp.status = 200 /\ \E p \in found : resp.data = <<p.mime, p.imgdata>>
           ELSE resp.status = 404

\* C9: GET /posts?max_created_at=T with T the created_at of the 21st-newest
\* post shows the 20 newest posts of live owners with created_at <= T,
\* newest first, whenever there are at least 20 of them.
C9_NextPageIsFull ==
    ( /\ resp.route = "GET /posts" /\ resp.status = 200
      /\ resp.arg[1].kind = "time"
      /\ NextPageTime > 0 /\ resp.arg[1].secs = NextPageTime ) =>
        LET older == {p \in posts : p.created_at <= NextPageTime /\ OwnerLive(p)}
        IN Cardinality(older) >= POSTS_PER_PAGE =>
             Ids(resp.posts) = Ids(OrderByCreatedAtDesc(older, POSTS_PER_PAGE))

\* the rows the listing behind response r handed to make_posts
ResultsOf(r) ==
    IF r.route = "GET /" THEN IndexQuery
    ELSE IF r.route = "GET /@" THEN UserListQuery(r.arg[1])
    ELSE PostsQuery(r.arg[1])

\* C10: in a listing made with all_comments = false, every post shows at
\* most 3 comments, they are the newest of the rows the batch comment query
\* returned for that post and stand oldest first, comment_count is the number
\* of those rows, and the posts stand in the order of the input rows.
C10_CommentsOfListedPosts ==
    (resp.route \in {"GET /", "GET /@", "GET /posts"} /\ resp.status = 200) =>
        LET results == ResultsOf(resp)
            batch == BatchComments(results, FALSE)
            out == resp.posts
            shown == {out[k].id : k \in 1..Len(out)}
            IsShown(r) == r.id \in shown
        IN /\ Ids(out) = Ids(SelectSeq(results, IsShown))
           /\ \A k \in 1..Len(out) :
                LET o == out[k]
                    rows == {batch[i] : i \in {j \in 1..Len(batch) : batch[j].post_id = o.id}}
                    kept == {o.comments[i].id : i \in 1..Len(o.comments)}
                IN /\ Len(o.comments) <= 3
                   /\ o.comment_count = Cardinality(rows)
                   /\ Len(o.comments) = Min(3, Cardinality(rows))
                   /\ Cardinality(kept) = Len(o.comments)
                   /\ kept \subseteq {c.id : c \in rows}
                   /\ \A c \in rows : c.id \notin kept =>
                        \A i \in 1..Len(o.comments) : o.comments[i].created_at > c.created_at
                   /\ \A i, j \in 1..Len(o.comments) :
                        i < j => o.comments[i].created_at < o.comments[j].created_at

\* GET /@<account_name> has listed a post with more than 3 batch rows, cut to
\* its 3 newest comments, and a post whose comment_count is below the number
\* of its comments in the table because the row limit cut the batch
C10_Witness ==
    /\ resp.route = "GET /@" /\ resp.status = 200
    /\ \E k \in 1..Len(resp.posts) :
         resp.posts[k].comment_count > 3 /\ Len(resp.posts[k].comments) = 3
    /\ \E k \in 1..Len(resp.posts) :
         /\ resp.posts[k].comment_count > 0
         /\ resp.posts[k].comment_count
              < Cardinality({c \in comments : c.post_id = resp.posts[k].id})

====
